---- MODULE Spec2Model ----
(***************************************************************************)
(* Playback-state controller of the music player (src/script.js).          *)
(*                                                                         *)
(* Volumes are integers in twentieths (0.8 is 16, the 0.1 key step is 2).  *)
(* A fade step is startVolume / 10 in the code; here it is rounded up to a *)
(* whole twentieth, so that a step is 0 exactly when the start volume is 0.*)
(* Songs are identified by their file (a positive integer); 0 is the audio *)
(* element without a source.  Time is abstracted: timers fire in any order.*)
(* Each handler is a function from the state record to the state record,   *)
(* so that a handler calling another is a composition of functions.        *)
(***************************************************************************)
EXTENDS Integers, Sequences, FiniteSets, TLC

VARIABLES
    phase,               \* "loading": init() awaits loadSongs(); "ready": listeners
                         \* installed; "failed": init() rejected before installing them
    songs,               \* let songs = []
    currentSongIndex,    \* let currentSongIndex = 0
    isPlaying,           \* let isPlaying = false
    isShuffleOn,         \* let isShuffleOn = false
    isMuted,             \* let isMuted = false
    volume,              \* let volume = 0.8
    isDraggingProgress,  \* let isDraggingProgress = false
    isDraggingVolume,    \* let isDraggingVolume = false
    audioSrc,            \* audioPlayer.src (0: none)
    audioPaused,         \* audioPlayer.paused
    audioEnded,          \* audioPlayer.ended
    audioVolume,         \* audioPlayer.volume
    audioMuted,          \* audioPlayer.muted
    audioPastThree,      \* audioPlayer.currentTime > 3
    playPromises,        \* continuations of play() awaiting audioPlayer.play()
    fadeOuts,            \* running fadeOut intervals, oldest first
    fadeIns,             \* running fadeIn intervals, oldest first
    playTimers,          \* pending setTimeout(() => { play(); fadeIn(); }, 100)
    playlistRows,        \* number of .playlist-item rows in the DOM
    activeRows,          \* indices of the rows carrying the 'active' class
    emptyShown,          \* the "No songs found" message is displayed
    volumeFill,          \* volumeFill.style.width in percent
    muteIcon,            \* the mute icon is displayed
    pauseHolds,          \* history: pause() ran and no user play action came since
    trail,               \* history: indices set by the consecutive nextSong calls
    keyRun,              \* history: consecutive ArrowUp (> 0) or ArrowDown (< 0) presses
    response,            \* history: what fetch('/api/songs') produced
    budget               \* external events left (-1: unlimited)

vars == <<phase, songs, currentSongIndex, isPlaying, isShuffleOn, isMuted, volume,
          isDraggingProgress, isDraggingVolume, audioSrc, audioPaused, audioEnded,
          audioVolume, audioMuted, audioPastThree, playPromises, fadeOuts, fadeIns,
          playTimers, playlistRows, activeRows, emptyShown, volumeFill, muteIcon,
          pauseHolds, trail, keyRun, response, budget>>

(* ---------------------------- bounds ----------------------------------- *)
MaxSongs == 2
MaxPending == 2
MaxEvents == 4

(* ----------------------- program constants ----------------------------- *)
FullVolume == 20
InitialVolume == 16
KeyStep == 2
FadeSteps == 10

Min(a, b) == IF a < b THEN a ELSE b
Max(a, b) == IF a > b THEN a ELSE b

\* The track lists the backend may return: files 1..n, in order.
SongLists == {[i \in 1..n |-> i] : n \in 0..MaxSongs}

\* What the fetch of the track list can produce: a network error (fetch
\* rejects), a status that is not OK, a body that is not JSON, or a JSON
\* object with or without a songs field.
NoResponse == [kind |-> "none", hasSongs |-> FALSE, songs |-> <<>>]

FailedResponses ==
    {[kind |-> k, hasSongs |-> FALSE, songs |-> <<>>] :
        k \in {"network error", "http error", "unparsable"}}

OkResponses ==
    {[kind |-> "json", hasSongs |-> FALSE, songs |-> <<>>]}
        \cup {[kind |-> "json", hasSongs |-> TRUE, songs |-> list] : list \in SongLists}

\* Positions of a click on the volume track, as (clientX - left) / width.
ClickPositions == {-3, 0, 5, FullVolume, FullVolume + 3}

\* The ends of the volume track.
EdgePositions == {0, FullVolume}

RemoveAt(q, i) == [j \in 1..(Len(q) - 1) |-> IF j < i THEN q[j] ELSE q[j + 1]]

\* startVolume / 10, in whole twentieths.
FadeStep(v) == (v + FadeSteps - 1) \div FadeSteps

(* ------------------------- the state record ---------------------------- *)
State ==
    [phase |-> phase, songs |-> songs, currentSongIndex |-> currentSongIndex,
     isPlaying |-> isPlaying, isShuffleOn |-> isShuffleOn, isMuted |-> isMuted,
     volume |-> volume, isDraggingProgress |-> isDraggingProgress,
     isDraggingVolume |-> isDraggingVolume, audioSrc |-> audioSrc,
     audioPaused |-> audioPaused, audioEnded |-> audioEnded,
     audioVolume |-> audioVolume, audioMuted |-> audioMuted,
     audioPastThree |-> audioPastThree, playPromises |-> playPromises,
     fadeOuts |-> fadeOuts, fadeIns |-> fadeIns, playTimers |-> playTimers,
     playlistRows |-> playlistRows, activeRows |-> activeRows,
     emptyShown |-> emptyShown, volumeFill |-> volumeFill, muteIcon |-> muteIcon,
     pauseHolds |-> pauseHolds]

\* The cap that keeps the timer queues finite: at most MaxPending intervals
\* and timeouts are pending at a time.
WithinBounds(s) ==
    Len(s.fadeOuts) + Len(s.fadeIns) + s.playTimers <= MaxPending

Becomes(s) ==
    /\ WithinBounds(s)
    /\ phase' = s.phase
    /\ songs' = s.songs
    /\ currentSongIndex' = s.currentSongIndex
    /\ isPlaying' = s.isPlaying
    /\ isShuffleOn' = s.isShuffleOn
    /\ isMuted' = s.isMuted
    /\ volume' = s.volume
    /\ isDraggingProgress' = s.isDraggingProgress
    /\ isDraggingVolume' = s.isDraggingVolume
    /\ audioSrc' = s.audioSrc
    /\ audioPaused' = s.audioPaused
    /\ audioEnded' = s.audioEnded
    /\ audioVolume' = s.audioVolume
    /\ audioMuted' = s.audioMuted
    /\ audioPastThree' = s.audioPastThree
    /\ playPromises' = s.playPromises
    /\ fadeOuts' = s.fadeOuts
    /\ fadeIns' = s.fadeIns
    /\ playTimers' = s.playTimers
    /\ playlistRows' = s.playlistRows
    /\ activeRows' = s.activeRows
    /\ emptyShown' = s.emptyShown
    /\ volumeFill' = s.volumeFill
    /\ muteIcon' = s.muteIcon
    /\ pauseHolds' = s.pauseHolds

(* ------------------- the audio element (browser) ----------------------- *)
\* The element is playing back its source.
AudioPlaying(s) == s.audioSrc # 0 /\ ~s.audioPaused /\ ~s.audioEnded

\* Pending play promises are rejected with AbortError: their continuations
\* run before those of any later play().
AbortPromises(p) == [aborted |-> p.aborted \/ p.pending, pending |-> FALSE]

\* audioPlayer.play(): the element leaves the paused state (and the ended
\* state, seeking to the start); the promise settles later.
AudioPlay(s) ==
    [s EXCEPT !.audioPaused = FALSE,
              !.audioPastThree = IF s.audioEnded THEN FALSE ELSE @,
              !.audioEnded = FALSE,
              !.playPromises = [@ EXCEPT !.pending = TRUE]]

\* audioPlayer.pause()
AudioPause(s) ==
    [s EXCEPT !.audioPaused = TRUE,
              !.playPromises = AbortPromises(@)]

\* audioPlayer.src = file: the load algorithm.  An element that never had a
\* source is only given one; otherwise the element is reset: paused, at the
\* start, its pending play promises rejected.
AudioSetSrc(s, file) ==
    IF s.audioSrc = 0
    THEN [s EXCEPT !.audioSrc = file]
    ELSE [s EXCEPT !.audioSrc = file,
                   !.audioPaused = TRUE,
                   !.audioEnded = FALSE,
                   !.audioPastThree = FALSE,
                   !.playPromises = AbortPromises(@)]

(* ----------------------------- UI updates ------------------------------ *)
updateVolumeButton(s) ==
    [s EXCEPT !.muteIcon = (s.isMuted \/ s.volume = 0)]

updateVolumeUI(s) ==
    updateVolumeButton([s EXCEPT !.volumeFill = IF s.isMuted THEN 0 ELSE s.volume])

updatePlaylistUI(s) ==
    [s EXCEPT !.activeRows = {i \in 0..(s.playlistRows - 1) : i = s.currentSongIndex}]

\* The rows are created with the class 'playlist-item' alone.
renderPlaylist(s) ==
    [s EXCEPT !.playlistRows = Len(s.songs), !.activeRows = {}, !.emptyShown = FALSE]

displayEmptyPlaylist(s) ==
    [s EXCEPT !.playlistRows = 0, !.activeRows = {}, !.emptyShown = TRUE]

(* --------------------------- audio effects ----------------------------- *)
\* setInterval of fadeOut: the step and the callback's song are captured.
fadeOut(s, file) ==
    [s EXCEPT !.fadeOuts = Append(@, [step |-> FadeStep(s.audioVolume), song |-> file])]

fadeIn(s) ==
    [s EXCEPT !.audioVolume = 0,
              !.fadeIns = Append(@, [target |-> s.volume, step |-> FadeStep(s.volume)])]

(* -------------------------- playback control --------------------------- *)
setSongSource(s, file) == AudioSetSrc(s, file)

\* play() up to its await.
play(s) == AudioPlay(s)

pause(s) ==
    [AudioPause(s) EXCEPT !.isPlaying = FALSE, !.pauseHolds = TRUE]

loadSongBody(s, index) ==
    LET s1 == [s EXCEPT !.currentSongIndex = index]
        file == s.songs[index + 1]
        s2 == IF s1.isPlaying THEN fadeOut(s1, file) ELSE setSongSource(s1, file)
    IN  updatePlaylistUI(s2)

\* loadSong with its upper bound check off by one: songs[index] is undefined
\* at index = songs.length, and the handler throws after assigning the index.
loadSongOffByOne(s, index) ==
    IF index < 0 \/ index > Len(s.songs) THEN s
    ELSE IF index = Len(s.songs) THEN [s EXCEPT !.currentSongIndex = index]
    ELSE loadSongBody(s, index)

loadSong(s, index) ==
    IF index < 0 \/ index >= Len(s.songs) THEN s ELSE loadSongBody(s, index)

togglePlayPause(s) ==
    IF Len(s.songs) = 0 THEN s
    ELSE IF s.isPlaying THEN pause(s) ELSE play(s)

\* nextSong stopping at the last track instead of wrapping.
NextIndexNoWrap(s) == Min(s.currentSongIndex + 1, Len(s.songs) - 1)

\* The index nextSong loads with shuffle off.
NextIndex(s) == (s.currentSongIndex + 1) % Len(s.songs)

\* r is the index the do-while loop over Math.random() ends with.
nextSong(s, r) ==
    IF Len(s.songs) = 0 THEN s
    ELSE IF s.isShuffleOn
         THEN IF Len(s.songs) > 1 THEN loadSong(s, r) ELSE s
         ELSE loadSong(s, NextIndex(s))

\* The indices the shuffle loop can end with.
ShuffleChoices(s) ==
    IF s.isShuffleOn /\ Len(s.songs) > 1
    THEN (0..(Len(s.songs) - 1)) \ {s.currentSongIndex}
    ELSE {0}

prevSong(s) ==
    IF Len(s.songs) = 0 THEN s
    ELSE IF s.audioPastThree
         THEN [s EXCEPT !.audioPastThree = FALSE, !.audioEnded = FALSE]
         ELSE loadSong(s, (s.currentSongIndex - 1 + Len(s.songs)) % Len(s.songs))

toggleShuffle(s) == [s EXCEPT !.isShuffleOn = ~@]

toggleMute(s) ==
    updateVolumeButton([s EXCEPT !.isMuted = ~@, !.audioMuted = ~s.isMuted])

\* setVolume without the upper clamp.
setVolumeNoUpperClamp(s, value) ==
    LET v == Max(0, value)
        s1 == [s EXCEPT !.volume = v, !.audioVolume = v]
        s2 == IF v > 0 /\ s1.isMuted
              THEN [s1 EXCEPT !.isMuted = FALSE, !.audioMuted = FALSE]
              ELSE s1
    IN  updateVolumeUI(s2)

setVolume(s, value) ==
    LET v == Max(0, Min(FullVolume, value))
        s1 == [s EXCEPT !.volume = v, !.audioVolume = v]
        s2 == IF v > 0 /\ s1.isMuted
              THEN [s1 EXCEPT !.isMuted = FALSE, !.audioMuted = FALSE]
              ELSE s1
    IN  updateVolumeUI(s2)

\* seekProgress: audioPlayer.duration is NaN while the element has no source.
seekProgress(s, pastThree) ==
    IF s.audioSrc = 0 THEN s
    ELSE [s EXCEPT !.audioPastThree = pastThree, !.audioEnded = FALSE]

\* The click handler of playlist row `index`.
rowClick(s, index) ==
    LET s1 == loadSong(s, index)
    IN  IF ~s1.isPlaying THEN play(s1) ELSE s1

(* ------------------------ loading the track list ----------------------- *)
\* data.songs || []
SongsOf(r) == IF r.hasSongs THEN r.songs ELSE <<>>

\* loadSongs() without its try / catch: the error rejects the promise that
\* init() awaits.
loadSongsNoCatch(s, r) ==
    IF r.kind # "json" THEN [s EXCEPT !.phase = "failed"]
    ELSE LET s1 == [s EXCEPT !.songs = SongsOf(r)]
         IN  IF Len(s1.songs) = 0 THEN displayEmptyPlaylist(s1)
                                  ELSE renderPlaylist(s1)

\* loadSongs() once the fetch has settled with r.  fetch, the status check
\* and response.json() throw before `songs` is assigned, into the catch block.
loadSongs(s, r) ==
    IF r.kind # "json" THEN displayEmptyPlaylist(s)
    ELSE LET s1 == [s EXCEPT !.songs = SongsOf(r)]
         IN  IF Len(s1.songs) = 0 THEN displayEmptyPlaylist(s1)
                                  ELSE renderPlaylist(s1)

\* init() after `await loadSongs()`: setupEventListeners(), unless the
\* awaited promise was rejected.
initAfterLoad(s) ==
    IF s.phase = "failed" THEN s ELSE [s EXCEPT !.phase = "ready"]

(* ------------------------------- Init ---------------------------------- *)
\* The script has run and init() is at `await loadSongs()`, the fetch in flight.
InitState ==
    /\ phase = "loading"
    /\ songs = <<>>
    /\ currentSongIndex = 0
    /\ isPlaying = FALSE
    /\ isShuffleOn = FALSE
    /\ isMuted = FALSE
    /\ volume = InitialVolume
    /\ isDraggingProgress = FALSE
    /\ isDraggingVolume = FALSE
    /\ audioSrc = 0
    /\ audioPaused = TRUE
    /\ audioEnded = FALSE
    /\ audioVolume = InitialVolume
    /\ audioMuted = FALSE
    /\ audioPastThree = FALSE
    /\ playPromises = [aborted |-> FALSE, pending |-> FALSE]
    /\ fadeOuts = <<>>
    /\ fadeIns = <<>>
    /\ playTimers = 0
    /\ playlistRows = 0
    /\ activeRows = {}
    /\ emptyShown = FALSE
    /\ volumeFill = InitialVolume
    /\ muteIcon = FALSE
    /\ pauseHolds = FALSE
    /\ trail = <<>>
    /\ keyRun = 0
    /\ response = NoResponse

\* Any number of external events.
Init == InitState /\ budget = -1

\* At most MaxEvents external events.
InitBounded == InitState /\ budget = MaxEvents

(* --------------------------- history, events --------------------------- *)
\* An external event (a user action or the end of the track) is handled
\* once the listeners are installed, and uses up one unit of a finite budget.
Event ==
    /\ phase = "ready"
    /\ budget # 0
    /\ budget' = IF budget > 0 THEN budget - 1 ELSE budget
    /\ UNCHANGED response

\* A timer or promise callback.
Callback == UNCHANGED <<budget, response>>

\* The step is neither a nextSong call nor a volume key press.
Plain == UNCHANGED <<trail, keyRun>>

\* nextSong was called with shuffle off: the index it set joins the trail
\* (kept in the runs of boundedly many events).
Trailed ==
    /\ trail' = IF isShuffleOn \/ Len(songs) = 0 \/ budget < 0 THEN <<>>
                ELSE IF trail = <<>> \/ Len(trail) > Len(songs)
                     THEN <<currentSongIndex, currentSongIndex'>>
                     ELSE Append(trail, currentSongIndex')
    /\ UNCHANGED keyRun

\* Another operation set the index or the shuffle mode: the trail ends.
TrailEnds == trail' = <<>> /\ UNCHANGED keyRun

\* The presses that take the volume from one end of its range to the other:
\* one more than 1 / 0.1, since ten sums of 0.1 in binary floating point
\* give 0.9999999999999999 and the eleventh is clamped to 1.
Presses == FullVolume \div KeyStep + 1

\* One more ArrowUp (d = 1) or ArrowDown (d = -1) in a row.
KeyPressed(d) ==
    /\ keyRun' = IF keyRun * d > 0
                 THEN (IF keyRun * d < Presses THEN keyRun + d ELSE keyRun)
                 ELSE d
    /\ UNCHANGED trail

\* The volume was set otherwise: the run of key presses ends.
KeyRunEnds == keyRun' = 0 /\ UNCHANGED trail

\* A user play action ends the hold of an earlier pause().
Released(s) == [s EXCEPT !.pauseHolds = FALSE]

(* ----------------------- the fetch of the track list ------------------- *)
\* The fetch settles with r: loadSongs() runs to its end and init() goes on.
LoadSettles(r) ==
    /\ phase = "loading"
    /\ Becomes(initAfterLoad(loadSongs(State, r)))
    /\ response' = r
    /\ UNCHANGED <<trail, keyRun, budget>>

\* The backend answered with a JSON object.
LoadSongsOk == \E r \in OkResponses : LoadSettles(r)

\* The fetch failed, the status was not OK or the body was not JSON.
LoadSongsFail == \E r \in FailedResponses : LoadSettles(r)

(* ---------------------------- user actions ----------------------------- *)
TogglePlayPause ==
    /\ Event
    /\ Becomes(togglePlayPause(Released(State)))
    /\ Plain

NextSong ==
    /\ Event
    /\ \E r \in ShuffleChoices(State) : Becomes(nextSong(State, r))
    /\ Trailed

PrevSong ==
    /\ Event
    /\ Becomes(prevSong(State))
    /\ TrailEnds

ToggleShuffle ==
    /\ Event
    /\ Becomes(toggleShuffle(State))
    /\ TrailEnds

ToggleMute ==
    /\ Event
    /\ Becomes(toggleMute(State))
    /\ Plain

\* 'click' on the volume track.
VolumeClick ==
    /\ Event
    /\ \E p \in ClickPositions : Becomes(setVolume(State, p))
    /\ KeyRunEnds

\* 'click' at an end of the volume track.
VolumeEdgeClick ==
    /\ Event
    /\ \E p \in EdgePositions : Becomes(setVolume(State, p))
    /\ KeyRunEnds

\* 'mousedown' on the volume track: startDraggingVolume.
VolumeMouseDown ==
    /\ Event
    /\ \E p \in ClickPositions :
          Becomes(setVolume([State EXCEPT !.isDraggingVolume = TRUE], p))
    /\ KeyRunEnds

ArrowUp ==
    /\ Event
    /\ Becomes(setVolume(State, volume + KeyStep))
    /\ KeyPressed(1)

ArrowDown ==
    /\ Event
    /\ Becomes(setVolume(State, volume - KeyStep))
    /\ KeyPressed(-1)

\* 'mousedown' on the progress bar: startDraggingProgress.
ProgressMouseDown ==
    /\ Event
    /\ \E b \in BOOLEAN :
          Becomes(seekProgress([State EXCEPT !.isDraggingProgress = TRUE], b))
    /\ Plain

\* 'click' on the progress bar.
ProgressClick ==
    /\ Event
    /\ \E b \in BOOLEAN : Becomes(seekProgress(State, b))
    /\ Plain

\* 'mousemove' on the document.  While only the volume is dragged,
\* setVolumeFromClick reads e.currentTarget, which is the document and has
\* no getBoundingClientRect: the handler throws before it changes anything.
MouseMove ==
    /\ Event
    /\ \E b \in BOOLEAN :
          Becomes(IF isDraggingProgress THEN seekProgress(State, b) ELSE State)
    /\ Plain

\* 'mouseup' on the document: stopDragging.
MouseUp ==
    /\ Event
    /\ Becomes([State EXCEPT !.isDraggingProgress = FALSE, !.isDraggingVolume = FALSE])
    /\ Plain

\* The media-session 'play' handler is play itself.
MediaPlay ==
    /\ Event
    /\ Becomes(play(Released(State)))
    /\ Plain

MediaPause ==
    /\ Event
    /\ Becomes(pause(State))
    /\ Plain

RowClick ==
    /\ Event
    /\ \E i \in 0..(playlistRows - 1) : Becomes(rowClick(Released(State), i))
    /\ TrailEnds

\* loadSong called with an arbitrary integer.
LoadSongCall ==
    /\ Event
    /\ \E i \in -1..MaxSongs : Becomes(loadSong(State, i))
    /\ TrailEnds

(* ------------------------ the audio element's events ------------------- *)
NoPromise == ~playPromises.pending /\ ~playPromises.aborted

\* audioPlayer.play() resolved: play() goes on after its await.  Promises
\* rejected earlier have their continuations run first.
PlayResolved ==
    /\ playPromises.pending /\ ~playPromises.aborted
    /\ AudioPlaying(State)
    /\ Becomes([State EXCEPT !.playPromises.pending = FALSE,
                             !.isPlaying = (Len(songs) > 0)])
    /\ Plain
    /\ Callback

\* audioPlayer.play() rejected with AbortError (pause() or a new source came
\* before playback started): the catch block of play().
PlayAborted ==
    /\ playPromises.aborted
    /\ Becomes([State EXCEPT !.playPromises.aborted = FALSE, !.isPlaying = FALSE])
    /\ Plain
    /\ Callback

\* audioPlayer.play() rejected by the browser (autoplay policy, unsupported
\* or missing file): the catch block of play().  The element does not play.
PlayRejected ==
    /\ playPromises.pending /\ ~playPromises.aborted
    /\ Becomes([State EXCEPT !.playPromises.pending = FALSE,
                             !.audioPaused = TRUE,
                             !.isPlaying = FALSE])
    /\ Plain
    /\ Callback

\* 'ended': playback reached the end of the track; the handler is nextSong.
Ended ==
    /\ Event
    /\ AudioPlaying(State) /\ NoPromise
    /\ \E r \in ShuffleChoices(State) :
          Becomes(nextSong([State EXCEPT !.audioEnded = TRUE], r))
    /\ Trailed

\* 'timeupdate' once playback is more than 3 seconds into the track.
TimeUpdate ==
    /\ phase = "ready"
    /\ AudioPlaying(State) /\ ~audioPastThree
    /\ Becomes([State EXCEPT !.audioPastThree = TRUE])
    /\ Plain
    /\ Callback

(* ------------------------------- timers -------------------------------- *)
\* The callback of fadeOut, as loadSong passes it.
fadeOutDone(s, file) ==
    [setSongSource(s, file) EXCEPT !.playTimers = @ + 1]

\* One run of the interval callback of the i-th fadeOut.
fadeOutTick(s, i) ==
    LET f == s.fadeOuts[i]
    IN  IF s.audioVolume > f.step
        THEN [s EXCEPT !.audioVolume = @ - f.step]
        ELSE fadeOutDone([s EXCEPT !.audioVolume = 0,
                                   !.fadeOuts = RemoveAt(@, i)], f.song)

FadeOutTick(i) ==
    /\ i <= Len(fadeOuts)
    /\ Becomes(fadeOutTick(State, i))
    /\ Plain
    /\ Callback

\* One run of the interval callback of the i-th fadeIn.
fadeInTick(s, i) ==
    LET f == s.fadeIns[i]
    IN  IF s.audioVolume < f.target - f.step
        THEN [s EXCEPT !.audioVolume = @ + f.step]
        ELSE [s EXCEPT !.audioVolume = f.target, !.fadeIns = RemoveAt(@, i)]

FadeInTick(i) ==
    /\ i <= Len(fadeIns)
    /\ Becomes(fadeInTick(State, i))
    /\ Plain
    /\ Callback

\* The 100 ms timeout of loadSong: play(); fadeIn();
PlayTimerFire ==
    /\ playTimers > 0
    /\ Becomes(fadeIn(play([State EXCEPT !.playTimers = @ - 1])))
    /\ Plain
    /\ Callback

(* --------------------------- specifications ---------------------------- *)
LoadSongs == LoadSongsOk \/ LoadSongsFail

\* The playback controls, with the volume set at the ends of its track.
PlaybackActions ==
    \/ TogglePlayPause
    \/ NextSong
    \/ PrevSong
    \/ ToggleShuffle
    \/ MediaPlay
    \/ MediaPause
    \/ RowClick
    \/ ProgressClick
    \/ VolumeEdgeClick

\* The volume and seek controls.
ControlActions ==
    \/ ToggleMute
    \/ VolumeClick
    \/ VolumeMouseDown
    \/ ArrowUp
    \/ ArrowDown
    \/ ProgressMouseDown
    \/ MouseMove
    \/ MouseUp

Callbacks ==
    \/ PlayResolved
    \/ PlayAborted
    \/ Ended
    \/ TimeUpdate
    \/ \E i \in 1..MaxPending : FadeOutTick(i)
    \/ \E i \in 1..MaxPending : FadeInTick(i)
    \/ PlayTimerFire

Next == LoadSongs \/ PlaybackActions \/ Callbacks \/ PlayRejected

Spec == Init /\ [][Next]_vars

\* The same steps, for runs of at most MaxEvents external events, with
\* loadSong also called directly.
NextBounded == Next \/ LoadSongCall

SpecBounded == InitBounded /\ [][NextBounded]_vars

\* Timers and promise callbacks run when they are due; play() is not
\* rejected by the browser; the external events are finitely many.
NextFair == LoadSongs \/ PlaybackActions \/ Callbacks

Fairness ==
    /\ WF_vars(LoadSongs)
    /\ WF_vars(PlayResolved)
    /\ WF_vars(PlayAborted)
    /\ WF_vars(PlayTimerFire)
    /\ \A i \in 1..MaxPending : WF_vars(FadeOutTick(i))
    /\ \A i \in 1..MaxPending : WF_vars(FadeInTick(i))

SpecFair == InitBounded /\ [][NextFair]_vars /\ Fairness

NextControls == LoadSongs \/ ControlActions

SpecControls == Init /\ [][NextControls]_vars

(* ------------------------------- claims -------------------------------- *)
\* C1: whenever the track list is non-empty, the current index is within
\* its bounds, whatever operations ran (loadSong with any integer included).
IndexInBounds ==
    Len(songs) > 0 => (0 <= currentSongIndex /\ currentSongIndex < Len(songs))

\* C1 witness: all the allowed operations ran and left the index on the
\* last track of a list of several.
IndexOnLastTrack ==
    /\ budget = 0
    /\ Len(songs) >= 2
    /\ currentSongIndex = Len(songs) - 1

\* C2: the volume stays within [0, 1]; a run of ArrowUp presses as long as
\* the range (Presses) ends at 1 and such a run of ArrowDown presses at 0.
VolumeClamped ==
    /\ 0 <= volume /\ volume <= FullVolume
    /\ keyRun >= Presses => volume = FullVolume
    /\ keyRun <= -Presses => volume = 0

\* C2 witness: ArrowDown was pressed until the volume saturated at 0.
VolumeSaturatedLow == keyRun <= -Presses /\ volume = 0

\* C3: whenever no play() promise is pending, isPlaying is true exactly
\* when the audio element is playing.
PlayStateMirrorsAudio ==
    NoPromise => (isPlaying <=> AudioPlaying(State))

\* C4: whenever a non-empty track list is rendered, exactly one row is
\* marked active, the row at currentSongIndex.
ActiveRowIsCurrent ==
    (Len(songs) > 0 /\ playlistRows > 0) => activeRows = {currentSongIndex}

\* C5: togglePlayPause invoked while not playing, with a non-empty track
\* list, asks the audio element to play the file of songs[currentSongIndex].
PlayTargetsCurrentSong ==
    [][(TogglePlayPause /\ ~isPlaying /\ Len(songs) > 0)
          => audioSrc' = songs[currentSongIndex + 1]]_vars

\* C6: once a track has been loaded, whenever no fade interval and no
\* delayed play is pending, the audio source is the file of the current song.
SourceIsCurrentSong ==
    (/\ audioSrc # 0
     /\ fadeOuts = <<>> /\ fadeIns = <<>> /\ playTimers = 0)
        => audioSrc = songs[currentSongIndex + 1]

\* C7: every fadeOut that is started eventually clears its interval (and so
\* runs its callback, which switches the source).
FadeOutCompletes == (fadeOuts # <<>>) ~> (fadeOuts = <<>>)

\* C8: after pause() ran, isPlaying stays false and the audio element stays
\* paused until the next togglePlayPause, media-session play or row click.
PauseIsKept == pauseHolds => (~isPlaying /\ audioPaused)

\* C9: when the track ends while playing, the list is non-empty and no
\* further external event comes, the player eventually plays again.
EndedLeadsToPlaying ==
    (audioEnded /\ isPlaying /\ Len(songs) >= 1 /\ budget = 0)
        ~> (isPlaying /\ AudioPlaying(State))

\* C10: with shuffle off every nextSong call moves to the next index modulo
\* the list length, and n calls in a row come back to the start after
\* visiting every index once.
NextSongCycles ==
    LET n == Len(songs)
    IN  n >= 1 =>
          /\ \A k \in 1..(Len(trail) - 1) : trail[k + 1] = (trail[k] + 1) % n
          /\ Len(trail) = n + 1 =>
                /\ trail[n + 1] = trail[1]
                /\ {trail[k] : k \in 1..n} = 0..(n - 1)
                /\ \A j, k \in 1..n : trail[j] = trail[k] => j = k

\* C10 witness: as many nextSong calls in a row as the longest list has tracks.
FullCycleDone == Len(songs) = MaxSongs /\ Len(trail) = MaxSongs + 1

\* C11: the displayed volume follows the mute and volume state: the fill is
\* 0% while muted and volume * 100% otherwise, and the mute icon is shown
\* exactly when the player is muted or the volume is 0.
VolumeDisplayFollowsState ==
    /\ volumeFill = (IF isMuted THEN 0 ELSE volume)
    /\ muteIcon <=> (isMuted \/ volume = 0)

\* C12: when loading the track list fails (network error, non-OK status or
\* unparsable body) the list stays empty, the empty-playlist message is
\* displayed and init() still installs the listeners, the error not leaving
\* loadSongs; a response without a songs field is treated as an empty list;
\* the list is assigned only while init() awaits loadSongs(), which is not
\* entered again, and no operation changes it afterwards.
TrackListLoadedOnce ==
    /\ [](/\ phase # "failed"
          /\ phase = "loading" => (response = NoResponse /\ songs = <<>>)
          /\ response \in FailedResponses =>
                (phase = "ready" /\ songs = <<>> /\ emptyShown /\ playlistRows = 0)
          /\ (response.kind = "json" /\ ~response.hasSongs) =>
                (phase = "ready" /\ songs = <<>> /\ emptyShown /\ playlistRows = 0)
          /\ (response.kind = "json" /\ response.hasSongs) =>
                (phase = "ready" /\ songs = response.songs))
    /\ [][phase # "loading" => (songs' = songs /\ phase' # "loading")]_vars

\* C12 witness: the backend answered with an error status, and every
\* allowed user action and callback ran afterwards.
LoadFailedThenUsed ==
    /\ response.kind = "http error"
    /\ phase = "ready"
    /\ emptyShown
    /\ budget = 0
====
